---- MODULE Spec2Model ----
(***************************************************************************)
(* A model of laytr/kfeat.py: the k-mer encoder (kmer_index), the region   *)
(* featurizer (kfeat, kfeats), the sequence resolver (get_features) and    *)
(* the parallel orchestrator (regions_to_kmers over multiprocessing.Pool). *)
(*                                                                         *)
(* Strings are sequences of one-character strings.  A numpy float64 entry  *)
(* is a pair <<num, den>> standing for num/den: <<n, 1>> is the count n,   *)
(* <<0, 0>> is nan, <<1, 0>> is inf, and <<0, d>> with d < 0 is -0.0.      *)
(* A call's outcome is a record [exc, val]: exc = "none" and the returned  *)
(* value, or the name of the exception raised.                             *)
(***************************************************************************)
EXTENDS Integers, Sequences, FiniteSets, TLC

VARIABLES
    kmer, index,                    \* kmer_index: argument, outcome
    seq, reference, region,         \* kfeat's sequence; get_features' reference, region
    k, normalize,                   \* their k and normalize arguments
    ret, featPc,                    \* kfeat / get_features outcome, position
    seqs, stack, kfeatsRet, kfeatsPc, \* kfeats: argument, call stack, outcome
    regions, nproc, callerNormalize,\* regions_to_kmers: arguments, caller's option
    taskq, workers, outq,           \* Pool: task queue, workers, result queue
    chunksize, value, success, numberLeft, \* MapResult: _chunksize, _value, _success, _number_left
    handled,                        \* history: chunk indices in the order their results arrived
    feats, poolPc                   \* regions_to_kmers: outcome, position

encVars == <<kmer, index>>
featVars == <<seq, reference, region, k, normalize, ret, featPc>>
kfeatsVars == <<seqs, stack, kfeatsRet, kfeatsPc>>
poolVars == <<regions, nproc, callerNormalize, taskq, workers, outq,
              chunksize, value, success, numberLeft, handled, feats, poolPc>>
vars == <<encVars, featVars, kfeatsVars, poolVars>>

----------------------------------------------------------------------------
(* Bounds of the model. *)

MaxK == 2
MaxKmerLen == 3
MaxLen == 4
MaxSeqs == 2
MaxSeqLen == 2
RecursionLimit == 4
MaxRegions == 3
MaxProc == 2

----------------------------------------------------------------------------
(* Values. *)

Ok(v) == [exc |-> "none", val |-> v]
Raise(e) == [exc |-> e, val |-> <<>>]
None == [exc |-> "unset", val |-> <<>>]

Min(a, b) == IF a < b THEN a ELSE b

Strings(S, n) == UNION {[1..m -> S] : m \in 0..n}

\* sq[a:b] for 0 <= a <= b: Python clamps the slice at the end of sq
Slice(sq, a, b) == SubSeq(sq, a + 1, Min(b, Len(sq)))

NaN == <<0, 0>>
Inf == <<1, 0>>

\* x / d elementwise for a float64 x and a Python int d (numpy warns, never raises)
true_divide(x, d) ==
    IF d = 0
    THEN (IF x[1] = 0 THEN NaN ELSE Inf)
    ELSE <<x[1], x[2] * d>>

\* np.zeros(n)
zeros(n) == [i \in 0..(n - 1) |-> <<0, 1>>]

----------------------------------------------------------------------------
(* kmer_index *)

NUCS == ("A" :> 0) @@ ("G" :> 1) @@ ("C" :> 2) @@ ("T" :> 3)

\* a plausible slip: (NUCS[nuc] << pos) * 2
ShiftedCode_precedence(nuc, pos) == (NUCS[nuc] * (2 ^ pos)) * 2

\* NUCS[nuc] << pos * 2
ShiftedCode(nuc, pos) == NUCS[nuc] * (2 ^ (pos * 2))

RECURSIVE kmer_index_loop(_, _, _)
kmer_index_loop(s, pos, ix) ==
    IF pos >= Len(s)
    THEN Ok(ix)
    ELSE LET nuc == s[pos + 1] IN
         IF nuc \notin DOMAIN NUCS
         THEN Raise("KeyError")
         ELSE kmer_index_loop(s, pos + 1, ix + ShiftedCode(nuc, pos))

kmer_index(s) == kmer_index_loop(s, 0, 0)

----------------------------------------------------------------------------
(* kfeat *)

\* a plausible slip: len(sq) - k
number_of_kmers_short(sq, kk) == Len(sq) - kk

number_of_kmers(sq, kk) == Len(sq) - kk + 1

RECURSIVE kfeat_loop(_, _, _, _, _)
kfeat_loop(sq, kk, i, n, acc) ==
    IF i >= n
    THEN Ok(acc)
    ELSE LET ix == kmer_index(Slice(sq, i, i + kk)) IN
         IF ix.exc /= "none"
         THEN Raise(ix.exc)
         ELSE kfeat_loop(sq, kk, i + 1, n,
                         [acc EXCEPT ![ix.val] = <<@[1] + 1, @[2]>>])

\* a plausible slip: ret //= number_of_kmers
normalized_floor(v, n) ==
    [i \in DOMAIN v |-> IF n = 0 THEN NaN ELSE <<v[i][1] \div n, 1>>]

\* ret /= number_of_kmers
normalized(v, n) == [i \in DOMAIN v |-> true_divide(v[i], n)]

kfeat(sq, kk, norm) ==
    LET n == number_of_kmers(sq, kk)
        counted == kfeat_loop(sq, kk, 0, n, zeros(4 ^ kk))
    IN  IF counted.exc /= "none" THEN counted
        ELSE IF norm THEN Ok(normalized(counted.val, n))
        ELSE counted

----------------------------------------------------------------------------
(* get_features *)

\* pysam.FastaFile(ref_fn).fetch(chrom, start, end)
fetch(ref, chrom, start, end) ==
    IF chrom \notin DOMAIN ref THEN Raise("KeyError")
    ELSE IF start < 0 \/ end < start THEN Raise("ValueError")
    ELSE Ok(Slice(ref[chrom], Min(start, Len(ref[chrom])), end))

\* a plausible slip: the filter keeps every character
NUCFILT_sub_keep(s) == s

\* NUCFILT.sub("", s) with NUCFILT = re.compile("[^ATCG]")
NUCFILT_sub(s) == SelectSeq(s, LAMBDA c : c \in {"A", "T", "C", "G"})

\* a plausible slip: a failed lookup is masked by an empty sequence
get_features_masked(reg, ref_fn, kk, norm) ==
    LET fetched == fetch(ref_fn, reg[1], reg[2], reg[3])
    IN  IF fetched.exc /= "none"
        THEN kfeat(<<>>, kk, norm)
        ELSE kfeat(NUCFILT_sub(fetched.val), kk, norm)

get_features(reg, ref_fn, kk, norm) ==
    LET fetched == fetch(ref_fn, reg[1], reg[2], reg[3])
    IN  IF fetched.exc /= "none"
        THEN fetched
        ELSE kfeat(NUCFILT_sub(fetched.val), kk, norm)

----------------------------------------------------------------------------
(* The state each component is in when it is not the one under study. *)

EncIdle == kmer = <<>> /\ index = None
FeatIdle ==
    /\ seq = <<>> /\ reference = <<>> /\ region = <<>>
    /\ k = 1 /\ normalize = TRUE /\ ret = None /\ featPc = "idle"
KfeatsIdle == seqs = <<>> /\ stack = <<>> /\ kfeatsRet = None /\ kfeatsPc = "idle"
PoolIdle ==
    /\ regions = <<>> /\ nproc = 1 /\ callerNormalize = TRUE
    /\ taskq = <<>> /\ workers = <<>> /\ outq = <<>>
    /\ chunksize = 0 /\ value = None /\ success = TRUE /\ numberLeft = 0
    /\ handled = <<>>
    /\ feats = None /\ poolPc = "idle"

----------------------------------------------------------------------------
(* The encoder: a k-mer over {A,G,C,T} is handed to kmer_index. *)

Kmers(n) == [1..n -> DOMAIN NUCS]

EncInit ==
    /\ kmer \in UNION {Kmers(n) : n \in 1..MaxKmerLen}
    /\ index = None
    /\ FeatIdle /\ KfeatsIdle /\ PoolIdle

kmer_index_call ==
    /\ index.exc = "unset"
    /\ index' = kmer_index(kmer)
    /\ UNCHANGED <<kmer, featVars, kfeatsVars, poolVars>>

EncNext == kmer_index_call

SpecEnc == EncInit /\ [][EncNext]_vars

----------------------------------------------------------------------------
(* The featurizer and the resolver: kfeat is called on a sequence, or       *)
(* get_features on the region of a reference that holds that sequence.      *)

Alphabet == {"A", "G", "C", "T", "N"}

Examples == {<<"A", "C", "N", "G", "T">>}

FeatInit ==
    /\ seq \in Strings(Alphabet, MaxLen) \cup Examples
    /\ reference = ("chr1" :> seq)
    /\ region = <<"chr1", 0, Len(seq)>>
    /\ k \in 1..MaxK
    /\ normalize \in BOOLEAN
    /\ ret = None
    /\ featPc = "start"
    /\ EncIdle /\ KfeatsIdle /\ PoolIdle

kfeat_call ==
    /\ featPc = "start"
    /\ ret' = kfeat(seq, k, normalize)
    /\ featPc' = "kfeat"
    /\ UNCHANGED <<seq, reference, region, k, normalize, encVars, kfeatsVars, poolVars>>

get_features_call ==
    /\ featPc = "start"
    /\ ret' = get_features(region, reference, k, normalize)
    /\ featPc' = "get_features"
    /\ UNCHANGED <<seq, reference, region, k, normalize, encVars, kfeatsVars, poolVars>>

FeatNext == kfeat_call \/ get_features_call

SpecFeat == FeatInit /\ [][FeatNext]_vars

----------------------------------------------------------------------------
(* kfeats: each call is a frame [kind, arg, i, acc] of the call stack: the   *)
(* iterable it was given (a list of strings or a string), the number of its  *)
(* elements already mapped, and the results gathered so far.                 *)

KfeatsAlphabet == {"A", "C"}

KfeatsInit ==
    /\ seqs \in Strings(Strings(KfeatsAlphabet, MaxSeqLen), MaxSeqs)
    /\ stack = <<>>
    /\ kfeatsRet = None
    /\ kfeatsPc = "start"
    /\ k \in 1..MaxK
    /\ normalize \in BOOLEAN
    /\ seq = <<>> /\ reference = <<>> /\ region = <<>>
    /\ ret = None /\ featPc = "idle"
    /\ EncIdle /\ PoolIdle

Frame(kind, arg) == [kind |-> kind, arg |-> arg, i |-> 0, acc |-> <<>>]

\* the element "for _ in seqs" yields next: an element of the list, or a
\* one-character string of the string
NextItem(f) == IF f.kind = "list" THEN f.arg[f.i + 1] ELSE <<f.arg[f.i + 1]>>

Top == stack[Len(stack)]

\* kfeats(seqs, k, normalize) is entered
kfeats_call ==
    /\ kfeatsPc = "start"
    /\ stack' = <<Frame("list", seqs)>>
    /\ kfeatsPc' = "running"
    /\ UNCHANGED <<seqs, kfeatsRet, encVars, featVars, poolVars>>

\* the comprehension calls kfeats (itself, line 46) on the next element
kfeats_recurse ==
    /\ kfeatsPc = "running"
    /\ Top.i < Len(Top.arg)
    /\ Len(stack) < RecursionLimit
    /\ stack' = Append(stack, Frame("str", NextItem(Top)))
    /\ UNCHANGED <<seqs, kfeatsRet, kfeatsPc, encVars, featVars, poolVars>>

\* the call would exceed the interpreter's recursion limit: RecursionError
\* unwinds every frame
kfeats_overflow ==
    /\ kfeatsPc = "running"
    /\ Top.i < Len(Top.arg)
    /\ Len(stack) >= RecursionLimit
    /\ stack' = <<>>
    /\ kfeatsRet' = Raise("RecursionError")
    /\ kfeatsPc' = "raised"
    /\ UNCHANGED <<seqs, encVars, featVars, poolVars>>

\* the comprehension is exhausted: np.array(acc) is returned to the caller
kfeats_return ==
    /\ kfeatsPc = "running"
    /\ Top.i = Len(Top.arg)
    /\ IF Len(stack) = 1
       THEN /\ stack' = <<>>
            /\ kfeatsRet' = Ok(Top.acc)
            /\ kfeatsPc' = "done"
       ELSE /\ stack' = [SubSeq(stack, 1, Len(stack) - 1) EXCEPT
                            ![Len(stack) - 1].acc = Append(@, Top.acc),
                            ![Len(stack) - 1].i = @ + 1]
            /\ UNCHANGED <<kfeatsRet, kfeatsPc>>
    /\ UNCHANGED <<seqs, encVars, featVars, poolVars>>

KfeatsNext == kfeats_call \/ kfeats_recurse \/ kfeats_overflow \/ kfeats_return

SpecKfeats == KfeatsInit /\ [][KfeatsNext]_vars

----------------------------------------------------------------------------
(* regions_to_kmers: Pool(nproc).map(m_caller, regions), then np.vstack.     *)

Genome ==
    "chr1" :> <<"A", "C", "G", "T", "A", "C", "G", "T", "A", "A", "N", "A", "C", "G">>

CandidateRegions ==
    {<<"chr1", 0, 10>>, <<"chr1", 11, 14>>, <<"chrX", 0, 5>>}

PoolInit ==
    /\ regions \in Strings(CandidateRegions, MaxRegions)
    /\ nproc \in 1..MaxProc
    /\ callerNormalize \in BOOLEAN
    /\ reference = Genome
    /\ k \in 1..MaxK
    /\ taskq = <<>> /\ workers = <<>> /\ outq = <<>>
    /\ chunksize = 0 /\ value = None /\ success = TRUE /\ numberLeft = 0
    /\ handled = <<>>
    /\ feats = None
    /\ poolPc = "start"
    /\ seq = <<>> /\ region = <<>> /\ normalize = TRUE
    /\ ret = None /\ featPc = "idle"
    /\ EncIdle /\ KfeatsIdle

\* m_caller = partial(get_features, ref_fn=reference, k=k): normalize is not
\* bound, so get_features runs with its default, normalize=True
m_caller(reg, ref_fn, kk) == get_features(reg, ref_fn, kk, TRUE)

\* Pool.map's chunksize: divmod(len(iterable), len(pool) * 4), rounded up
ChunkSize(n, p) ==
    IF n = 0 THEN 0
    ELSE IF n % (p * 4) /= 0 THEN (n \div (p * 4)) + 1 ELSE n \div (p * 4)

\* MapResult._number_left
NumChunks(n, cs) ==
    IF cs <= 0 THEN 0 ELSE (n \div cs) + (IF n % cs /= 0 THEN 1 ELSE 0)

\* the i-th batch of the task list
Batch(i) == Slice(regions, i * chunksize, (i + 1) * chunksize)

\* mapstar: list(map(m_caller, batch)); the first exception ends the batch
RECURSIVE mapstar(_, _)
mapstar(batch, acc) ==
    IF batch = <<>> THEN Ok(acc)
    ELSE LET r == m_caller(Head(batch), reference, k) IN
         IF r.exc /= "none" THEN Raise(r.exc)
         ELSE mapstar(Tail(batch), Append(acc, r.val))

\* a plausible slip (imap_unordered): results are kept in arrival order
StoreResult_unordered(val, i, cs, res, arrived) ==
    [j \in 1..Len(val) |->
        IF j > arrived * cs /\ j <= arrived * cs + Len(res)
        THEN res[j - arrived * cs] ELSE val[j]]

\* Pool.map keeps input order: _value[i*cs:(i+1)*cs] = result
StoreResult(val, i, cs, res, arrived) ==
    [j \in 1..Len(val) |->
        IF j > i * cs /\ j <= i * cs + Len(res) THEN res[j - i * cs] ELSE val[j]]

\* np.vstack([result]): np.atleast_2d of the list of rows; an empty list is
\* a 1-D array of length 0 and becomes one row of no columns
vstack(result) == IF result = <<>> THEN << <<>> >> ELSE result

\* lines 76-78: the pool is created and map() queues one task per batch
regions_to_kmers_call ==
    /\ poolPc = "start"
    /\ chunksize' = ChunkSize(Len(regions), nproc)
    /\ numberLeft' = NumChunks(Len(regions), chunksize')
    /\ taskq' = [i \in 1..numberLeft' |-> i - 1]
    /\ workers' = [w \in 1..nproc |-> -1]
    /\ value' = Ok([j \in 1..Len(regions) |-> <<>>])
    /\ success' = TRUE
    /\ poolPc' = "map"
    /\ UNCHANGED <<regions, nproc, callerNormalize, outq, handled, feats,
                   encVars, featVars, kfeatsVars>>

\* an idle worker process takes the next task from the queue
worker_get(w) ==
    /\ poolPc = "map"
    /\ workers[w] = -1
    /\ taskq /= <<>>
    /\ workers' = [workers EXCEPT ![w] = Head(taskq)]
    /\ taskq' = Tail(taskq)
    /\ UNCHANGED <<regions, nproc, callerNormalize, outq, chunksize, value, success,
                   numberLeft, handled, feats, poolPc, encVars, featVars, kfeatsVars>>

\* a worker finishes its batch and puts (i, (success, result)) on the result queue
worker_put(w) ==
    /\ poolPc = "map"
    /\ workers[w] /= -1
    /\ outq' = Append(outq, [i |-> workers[w], obj |-> mapstar(Batch(workers[w]), <<>>)])
    /\ workers' = [workers EXCEPT ![w] = -1]
    /\ UNCHANGED <<regions, nproc, callerNormalize, taskq, chunksize, value, success,
                   numberLeft, handled, feats, poolPc, encVars, featVars, kfeatsVars>>

\* the result handler takes the next result: MapResult._set(i, obj)
handle_result ==
    /\ poolPc = "map"
    /\ outq /= <<>>
    /\ LET i == Head(outq).i
           obj == Head(outq).obj
       IN  /\ numberLeft' = numberLeft - 1
           /\ IF obj.exc = "none" /\ success
              THEN /\ value' = Ok(StoreResult(value.val, i, chunksize, obj.val, Len(handled)))
                   /\ UNCHANGED success
              ELSE IF obj.exc /= "none" /\ success
              THEN /\ success' = FALSE          \* only the first exception is stored
                   /\ value' = Raise(obj.exc)
              ELSE UNCHANGED <<value, success>>
           /\ handled' = Append(handled, i)
    /\ outq' = Tail(outq)
    /\ UNCHANGED <<regions, nproc, callerNormalize, taskq, workers, chunksize,
                   feats, poolPc, encVars, featVars, kfeatsVars>>

\* lines 78-82: every batch is done and succeeded; map() returns the list,
\* the pool is closed and joined, and the rows are stacked
regions_to_kmers_return ==
    /\ poolPc = "map"
    /\ numberLeft = 0
    /\ success
    /\ feats' = Ok(vstack(value.val))
    /\ poolPc' = "done"
    /\ workers' = <<>>
    /\ UNCHANGED <<regions, nproc, callerNormalize, taskq, outq, chunksize, value, success,
                   numberLeft, handled, encVars, featVars, kfeatsVars>>

\* line 78: every batch is done and one failed; map() re-raises the stored
\* exception, the with block terminates the pool, nothing is returned
regions_to_kmers_raise ==
    /\ poolPc = "map"
    /\ numberLeft = 0
    /\ ~success
    /\ feats' = Raise(value.exc)
    /\ poolPc' = "raised"
    /\ workers' = <<>>
    /\ UNCHANGED <<regions, nproc, callerNormalize, taskq, outq, chunksize, value, success,
                   numberLeft, handled, encVars, featVars, kfeatsVars>>

PoolNext ==
    \/ regions_to_kmers_call
    \/ \E w \in 1..nproc : worker_get(w)
    \/ \E w \in 1..nproc : worker_put(w)
    \/ handle_result
    \/ regions_to_kmers_return
    \/ regions_to_kmers_raise

SpecPool == PoolInit /\ [][PoolNext]_vars

----------------------------------------------------------------------------
(* What the claims are stated with. *)

Canon == {"A", "G", "C", "T"}
Max(a, b) == IF a > b THEN a ELSE b

\* an entry that compares equal to 0 (0.0 or -0.0, not nan)
IsZero(x) == x[2] /= 0 /\ x[1] = 0
IsCanonical(s) == \A i \in 1..Len(s) : s[i] \in Canon

Code(c) == CASE c = "A" -> 0 [] c = "G" -> 1 [] c = "C" -> 2 [] c = "T" -> 3

\* the sum over pos of code(s[pos]) * 4^pos, position 0 least significant
RECURSIVE IndexSum(_, _)
IndexSum(s, pos) ==
    IF pos >= Len(s) THEN 0
    ELSE Code(s[pos + 1]) * (4 ^ pos) + IndexSum(s, pos + 1)

\* the number of window starts of s whose k-mer has index i
CountOf(s, kk, i) ==
    Cardinality({st \in 0..(Len(s) - kk) : IndexSum(SubSeq(s, st + 1, st + kk), 0) = i})

\* the canonical characters of s, in order
RECURSIVE Compact(_)
Compact(s) ==
    IF s = <<>> THEN <<>>
    ELSE IF Head(s) \in Canon THEN <<Head(s)>> \o Compact(Tail(s))
    ELSE Compact(Tail(s))

RECURSIVE GCD(_, _)
GCD(a, b) == IF b = 0 THEN a ELSE GCD(b, a % b)

\* x + y for two finite entries, in lowest terms
RatAdd(x, y) ==
    LET n == x[1] * y[2] + y[1] * x[2]
        d == x[2] * y[2]
        g == GCD(IF n < 0 THEN -n ELSE n, IF d < 0 THEN -d ELSE d)
    IN  <<n \div g, d \div g>>

\* x = a / b for a finite entry x
RatEq(x, a, b) == x[2] /= 0 /\ x[1] * b = a * x[2]

IsFinite(v) == \A i \in DOMAIN v : v[i][2] /= 0

\* the sum of the entries lo..hi-1 of a vector of finite entries
RECURSIVE SumRange(_, _, _)
SumRange(v, lo, hi) ==
    IF hi <= lo THEN <<0, 1>>
    ELSE IF hi = lo + 1 THEN RatAdd(<<0, 1>>, v[lo])
    ELSE LET mid == (lo + hi) \div 2
         IN  RatAdd(SumRange(v, lo, mid), SumRange(v, mid, hi))

VectorSum(v) == SumRange(v, 0, Cardinality(DOMAIN v))

----------------------------------------------------------------------------
\* C1: every k-mer over {A,G,C,T} is encoded as the sum of code(s[pos]) * 4^pos
\* with A=0, G=1, C=2, T=3, and the k-mers of one length map one-to-one onto
\* 0..4^k-1 ("AA" to 0 and "TT" to 15).
C1_EncodingBijective ==
    index.exc /= "unset" =>
        LET n == Len(kmer) IN
        /\ index.exc = "none"
        /\ index.val = IndexSum(kmer, 0)
        /\ index.val \in 0..((4 ^ n) - 1)
        /\ \A t \in Kmers(n) : t /= kmer => kmer_index(t).val /= index.val
        /\ {kmer_index(t).val : t \in Kmers(n)} = 0..((4 ^ n) - 1)
        /\ (kmer = <<"A", "A">> => index.val = 0)
        /\ (kmer = <<"T", "T">> => index.val = 15)

C1_Witness == kmer = <<"T", "T">> /\ index.exc = "none" /\ index.val = 15

\* C2: kfeat without normalization on a sequence over {A,G,C,T} returns a
\* vector of length 4^k whose entry i is the number of window starts whose
\* k-mer has index i, and whose entries sum to max(0, L - k + 1).
C2_RawCounts ==
    (featPc = "kfeat" /\ ~normalize /\ IsCanonical(seq)) =>
        /\ ret.exc = "none"
        /\ DOMAIN ret.val = 0..((4 ^ k) - 1)
        /\ \A i \in DOMAIN ret.val : ret.val[i] = <<CountOf(seq, k, i), 1>>
        /\ VectorSum(ret.val) = <<Max(0, Len(seq) - k + 1), 1>>

C2_Witness ==
    /\ featPc = "kfeat" /\ ~normalize /\ IsCanonical(seq)
    /\ Len(seq) > k
    /\ ret.exc = "none"
    /\ \E i \in DOMAIN ret.val : ret.val[i] = <<2, 1>>

\* C3: when the sequence is shorter than k and normalize is true, kfeat
\* returns the all-zero vector of length 4^k.
C3_DegenerateAllZero ==
    (featPc = "kfeat" /\ normalize /\ IsCanonical(seq) /\ Len(seq) - k + 1 <= 0) =>
        /\ ret.exc = "none"
        /\ DOMAIN ret.val = 0..((4 ^ k) - 1)
        /\ \A i \in DOMAIN ret.val : IsZero(ret.val[i])

\* C8: get_features counts the windows of the sequence with every character
\* outside {A,G,C,T} removed: the encoder never meets such a character, a raw
\* sequence with m canonical characters has max(0, m - k + 1) counted windows,
\* and "ACNGT" with k = 2 yields the windows AC, CG, GT.
C8_FilteredBeforeCounting ==
    featPc = "get_features" =>
        LET c == Compact(seq)
            m == Cardinality({i \in 1..Len(seq) : seq[i] \in Canon})
        IN  /\ ret.exc = "none"
            /\ DOMAIN ret.val = 0..((4 ^ k) - 1)
            /\ ~normalize =>
                /\ \A i \in DOMAIN ret.val : ret.val[i] = <<CountOf(c, k, i), 1>>
                /\ VectorSum(ret.val) = <<Max(0, m - k + 1), 1>>
            /\ (normalize /\ m >= k) =>
                \A i \in DOMAIN ret.val : RatEq(ret.val[i], CountOf(c, k, i), m - k + 1)
            /\ (seq = <<"A", "C", "N", "G", "T">> /\ k = 2 /\ ~normalize) =>
                ret.val = [i \in 0..15 |->
                            IF i \in {IndexSum(<<"A", "C">>, 0), IndexSum(<<"C", "G">>, 0),
                                      IndexSum(<<"G", "T">>, 0)}
                            THEN <<1, 1>> ELSE <<0, 1>>]

C8_Witness ==
    /\ featPc = "get_features" /\ seq = <<"A", "C", "N", "G", "T">>
    /\ k = 2 /\ ~normalize
    /\ ret.exc = "none" /\ VectorSum(ret.val) = <<3, 1>>

Fetched(reg) == fetch(reference, reg[1], reg[2], reg[3])
LookupFails(reg) == Fetched(reg).exc /= "none"
AnyLookupFails == \E i \in 1..Len(regions) : LookupFails(regions[i])

\* the feature vector of a region: its k-mer frequencies, as get_features
\* returns them
FeatureVector(reg) == get_features(reg, reference, k, TRUE).val

\* the raw k-mer counts of a region
RawCounts(reg) ==
    [i \in 0..((4 ^ k) - 1) |-> <<CountOf(Compact(Fetched(reg).val), k, i), 1>>]

\* C4: whatever the number of workers and the order in which they finish,
\* row i of the returned matrix is the feature vector of the i-th region, so
\* the matrix depends on the inputs alone (one worker or many).
C4_RowOrderPreserved ==
    poolPc = "done" =>
        /\ feats.exc = "none"
        /\ \A i \in 1..Len(regions) :
              i <= Len(feats.val) /\ feats.val[i] = FeatureVector(regions[i])
        /\ regions /= <<>> => Len(feats.val) = Len(regions)
        /\ regions = <<>> => feats.val = << <<>> >>

C4_Witness ==
    /\ poolPc = "done" /\ nproc = 2 /\ Len(regions) = 3
    /\ handled = <<1, 0, 2>>
    /\ feats.val[1] /= feats.val[2]

\* C5: when the lookup of any one region fails, regions_to_kmers never
\* returns a matrix: it ends by raising that error.
C5_FailureAbortsBatch ==
    (poolPc /= "start" /\ AnyLookupFails) =>
        /\ poolPc /= "done"
        /\ feats.exc /= "none"
        /\ (poolPc = "map" /\ numberLeft = 0) => ~success
        /\ poolPc = "raised" =>
              \E i \in 1..Len(regions) :
                  LookupFails(regions[i]) /\ feats.exc = Fetched(regions[i]).exc

C5_Witness ==
    /\ poolPc = "raised" /\ nproc = 2 /\ Len(regions) = 3
    /\ LookupFails(regions[2]) /\ ~LookupFails(regions[1]) /\ ~LookupFails(regions[3])
    /\ handled = <<0, 1, 2>>
    /\ feats.exc = "KeyError"

\* C6: the returned matrix has one row per region and 4^k columns in every
\* row; an empty region sequence yields 0 rows.
C6_MatrixShape ==
    poolPc = "done" =>
        /\ Len(feats.val) = Len(regions)
        /\ \A r \in 1..Len(feats.val) : DOMAIN feats.val[r] = 0..((4 ^ k) - 1)

\* C7: run with the caller's normalize option false, every row of the
\* returned matrix holds the raw k-mer counts of its region (with k = 1,
\* "ACGTACGTAA" gives 4, 2, 2, 2 and "ACG" gives 1, 1, 1, 0).
C7_NormalizeOptionApplied ==
    (poolPc = "done" /\ ~callerNormalize) =>
        /\ \A i \in 1..Len(regions) :
              i <= Len(feats.val) /\ feats.val[i] = RawCounts(regions[i])
        /\ (k = 1 /\ regions = <<(<<"chr1", 0, 10>>), (<<"chr1", 11, 14>>)>>) =>
              /\ feats.val[1] = (0 :> <<4, 1>>) @@ (1 :> <<2, 1>>) @@ (2 :> <<2, 1>>) @@ (3 :> <<2, 1>>)
              /\ feats.val[2] = (0 :> <<1, 1>>) @@ (1 :> <<1, 1>>) @@ (2 :> <<1, 1>>) @@ (3 :> <<0, 1>>)

\* C10: kfeats on a list of sequences ends by returning one feature vector
\* per sequence, in order, each the kfeat of its sequence.
C10_KfeatsReturnsVectors ==
    /\ kfeatsPc /= "raised"
    /\ kfeatsPc = "done" =>
          /\ kfeatsRet.exc = "none"
          /\ Len(kfeatsRet.val) = Len(seqs)
          /\ \A i \in 1..Len(seqs) : kfeatsRet.val[i] = kfeat(seqs[i], k, normalize).val

====
